---- MODULE Spec2Model ----
(***************************************************************************)
(* Linguava: the authentication-aware route guard (Next.js middleware) and  *)
(* its matcher, the pages and route handlers it protects (login page, auth *)
(* callback, dashboard page, logout action), the navigation that results   *)
(* from their redirects, and the server actions on the table               *)
(* user_languages with the dashboard components that call them.            *)
(*                                                                         *)
(* Strings are real strings: paths, query keys and query values are the    *)
(* texts the code compares with startsWith, has, get, set and delete.      *)
(***************************************************************************)
EXTENDS Integers, Sequences, FiniteSets, TLC

VARIABLES
    req,        \* the request being evaluated by the middleware: a URL
    pc,         \* the middleware's position: idle, awaitSession, done, or
                \* skipped when the matcher kept the request from it
    lookups,    \* number of getSession calls issued for the current request
    lookup,     \* what getSession returned for the current request
    decision,   \* what the middleware answered (or that it threw)
    prev,       \* an earlier request the middleware answered, with the
                \* lookup result it got and the answer it gave
    url,        \* browser: the URL being requested or shown
    phase,      \* browser: idle, guard, handler, rendered, or crashed when
                \* the server answered with an error
    page,       \* browser: the page that is rendered
    session,    \* environment: what getSession gives the middleware
    userResult, \* environment: what getUser gives the dashboard page
    intent,     \* the path the guard saved in redirectTo for this visit
    signedIn,   \* the user signed in after the guard sent them to /login
    last,       \* the last step the navigation took
    loggedOut,  \* the logout action completed and nobody signed in since
    clientSession,  \* browser: its own client's getSession gives a session
    document,   \* browser: the request in flight asks for a document, which
                \* the server renders, and is no navigation inside the
                \* application
    rows,       \* database: the table user_languages, in insertion order
    profiles,   \* database: the users with a row in user_profiles
    calls,      \* per browser: the server action call it has in flight
    ui,         \* per browser: the state of DashboardContent, and whether
                \* the page is being reloaded
    begun,      \* number of calls begun so far
    languages,          \* LanguageSelector: the languages prop
    searchTerm,         \* LanguageSelector: the text of the search box
    selectedCategory,   \* LanguageSelector: the id of the chosen category
    filteredLanguages,  \* LanguageSelector: the list it displays
    effectPending       \* LanguageSelector: the last render changed what the
                        \* filter effect depends on, and the effect has not
                        \* run yet

guardVars == <<req, pc, lookups, lookup, decision, prev>>
navVars == <<url, phase, page, session, userResult, intent, signedIn, last,
            loggedOut, clientSession, document>>
langVars == <<rows, profiles, calls, ui, begun>>
selectorVars == <<languages, searchTerm, selectedCategory, filteredLanguages,
                 effectPending>>
vars == <<req, pc, lookups, lookup, decision, prev,
          url, phase, page, session, userResult, intent, signedIn, last,
          loggedOut, clientSession, document, rows, profiles, calls, ui, begun,
          languages, searchTerm, selectedCategory, filteredLanguages,
          effectPending>>

(***************************************************************************)
(* Bounds of the model.                                                    *)
(***************************************************************************)
\* longest query string (number of key=value pairs) of a request to the guard
MaxQuery == 2
\* longest query string a user types into the browser in the navigation model
MaxNavQuery == 1
\* largest number of rows the table user_languages gets
MaxRows == 2
\* largest number of calls the browsers begin in one run
MaxCalls == 4

(***************************************************************************)
(* Input sets.                                                             *)
(***************************************************************************)
Origin == "https://app.example"

Paths == {"/", "/about", "/login", "/auth/reset", "/auth/callback",
          "/auth/callback/done", "/dashboard", "/dashboard/settings"}

Keys == {"redirectTo", "error", "code"}

\* query values: local paths, an absolute URL, a protocol-relative URL, a
\* value with a query of its own, the empty value, an opaque code, a path
\* with a dot segment and a path that starts with a slash and a backslash
Values == {"/dashboard/settings", "/a?b", "https://evil.example",
           "//evil.example", "", "abc", "/a/../b", "/\\evil.example"}

Pairs == [k : Keys, v : Values]

SeqsUpTo(S, n) == UNION {[1..m -> S] : m \in 0..n}

Queries == SeqsUpTo(Pairs, MaxQuery)

\* the query parameters of the URLs the user opens in the browser: a
\* continuation to a local path, to another site and to a protocol-relative
\* URL, an error, and a code, present or empty
NavPairs == {[k |-> "redirectTo", v |-> "/dashboard/settings"],
             [k |-> "redirectTo", v |-> "https://evil.example"],
             [k |-> "redirectTo", v |-> "//evil.example"],
             [k |-> "error", v |-> "abc"],
             [k |-> "code", v |-> "abc"],
             [k |-> "code", v |-> ""]}

NavQueries == SeqsUpTo(NavPairs, MaxNavQuery)

\* getSession's outcomes: a session, no session, an error, a rejected promise
SessionResults == {"Valid", "Absent", "Error", "Throws"}

(***************************************************************************)
(* Strings.                                                                *)
(***************************************************************************)
\* String.prototype.startsWith
StartsWith(s, p) == Len(s) >= Len(p) /\ SubSeq(s, 1, Len(p)) = p

(***************************************************************************)
(* URLSearchParams: an ordered list of key/value pairs.                    *)
(***************************************************************************)
\* url.searchParams.has(k)
Has(q, k) == \E i \in 1..Len(q) : q[i].k = k

\* url.searchParams.get(k): the first value of k (null is modelled as "",
\* which the code's truthiness test treats the same way)
Get(q, k) ==
    IF Has(q, k)
    THEN q[CHOOSE i \in 1..Len(q) : q[i].k = k /\ \A j \in 1..(i-1) : q[j].k # k].v
    ELSE ""

RECURSIVE Delete(_, _)
\* url.searchParams.delete(k): removes every pair named k
Delete(q, k) ==
    IF q = <<>> THEN <<>>
    ELSE IF Head(q).k = k THEN Delete(Tail(q), k)
    ELSE <<Head(q)>> \o Delete(Tail(q), k)

RECURSIVE SetFirst(_, _, _)
SetFirst(q, k, v) ==
    IF q = <<>> THEN <<>>
    ELSE IF Head(q).k = k THEN <<[k |-> k, v |-> v]>> \o Delete(Tail(q), k)
    ELSE <<Head(q)>> \o SetFirst(Tail(q), k, v)

\* url.searchParams.set(k, v): the first pair named k takes the value and the
\* other pairs named k are removed; with no such pair, one is appended
Set(q, k, v) ==
    IF Has(q, k) THEN SetFirst(q, k, v) ELSE Append(q, [k |-> k, v |-> v])

\* the query seen as a mapping: the set of its key/value pairs
Params(q) == {q[i] : i \in 1..Len(q)}

(***************************************************************************)
(* URLs.  A URL is [origin, pathname, query]; req.nextUrl.clone() copies   *)
(* all three, and the middleware then assigns pathname and edits query.    *)
(***************************************************************************)
\* the characters the model's strings may hold, in blocks of consecutive
\* code points, each block with the code of its first character: the tab and
\* the line feed, the form feed and the carriage return, U+0020 to U+005F,
\* U+0061 to U+007E, U+00A1 to U+00AC and U+00AE to U+00FF. The operators
\* that work character by character are defined on these characters only.
CodeBlocks ==
    << [first |-> 9, chars |-> "\t\n"],
       [first |-> 12, chars |-> "\f\r"],
       [first |-> 32,
        chars |-> " !\"#$%&'()*+,-./0123456789:;<=>?@ABCDEFGHIJKLMNOPQRSTUVWXYZ[\\]^_"],
       [first |-> 97, chars |-> "abcdefghijklmnopqrstuvwxyz{|}~"],
       [first |-> 161, chars |-> "¡¢£¤¥¦§¨©ª«¬"],
       [first |-> 174,
        chars |-> "®¯°±²³´µ¶·¸¹º»¼½¾¿ÀÁÂÃÄÅÆÇÈÉÊËÌÍÎÏÐÑÒÓÔÕÖ×ØÙÚÛÜÝÞßàáâãäåæçèéêëìíîïðñòóôõö÷øùúûüýþÿ"] >>

Alphabet ==
    UNION {{SubSeq(CodeBlocks[b].chars, i, i) : i \in 1..Len(CodeBlocks[b].chars)} :
           b \in 1..Len(CodeBlocks)}

\* the position of the one-character string c in s, 0 when it is not there
IndexOf(s, c) ==
    IF \E i \in 1..Len(s) : SubSeq(s, i, i) = c
    THEN CHOOSE i \in 1..Len(s) : SubSeq(s, i, i) = c
    ELSE 0

\* String.prototype.charCodeAt(0) of each character
CodeOf ==
    [c \in Alphabet |->
        LET b == CHOOSE k \in 1..Len(CodeBlocks) : IndexOf(CodeBlocks[k].chars, c) # 0
        IN  CodeBlocks[b].first + IndexOf(CodeBlocks[b].chars, c) - 1]

HexDigits == "0123456789ABCDEF"

\* a byte percent-encoded: the percent sign and two upper-case hex digits
PercentByte(n) ==
    "%" \o SubSeq(HexDigits, (n \div 16) + 1, (n \div 16) + 1)
        \o SubSeq(HexDigits, (n % 16) + 1, (n % 16) + 1)

\* the characters below U+007F of the path percent-encode set that are not
\* controls: the space, the double quote, #, <, >, ?, the braces (and the
\* grave accent, which no string of this module can hold)
PathPercentEncodeSet == {" ", "\"", "#", "<", ">", "?", "{", "}"}

\* the URL parser's path state percent-encodes the characters of the path
\* percent-encode set: the C0 controls, the characters above, and everything
\* from U+007F on, which is encoded byte by byte in its UTF-8 form (two bytes
\* up to U+00FF)
EncodeOf ==
    [c \in Alphabet |->
        LET n == CodeOf[c]
        IN  IF n < 32 \/ c \in PathPercentEncodeSet THEN PercentByte(n)
            ELSE IF n >= 127
            THEN PercentByte(192 + (n \div 64)) \o PercentByte(128 + (n % 64))
            ELSE c]

EncodeChar(c) == EncodeOf[c]

\* the URL parser removes every tab and newline from its input
IsTabOrNewline(c) == c \in {"\t", "\n", "\r"}

\* in a URL of a special scheme a backslash ends a path segment as a slash
\* does
IsSlash(c) == c \in {"/", "\\"}

\* a path segment that stands for the directory itself, or for its parent
SingleDot(b) == b \in {".", "%2e", "%2E"}

DoubleDot(b) ==
    b \in {"..", ".%2e", ".%2E", "%2e.", "%2E.",
           "%2e%2e", "%2e%2E", "%2E%2e", "%2E%2E"}

\* the path state at the end of a segment with buffer b: a double-dot segment
\* removes the last segment, a single-dot segment adds nothing, and either of
\* them leaves an empty last segment when the input ends with it
CloseSegment(path, b, atEnd) ==
    IF DoubleDot(b)
    THEN LET shortened == IF path = <<>> THEN <<>>
                          ELSE SubSeq(path, 1, Len(path) - 1)
         IN  IF atEnd THEN Append(shortened, "") ELSE shortened
    ELSE IF SingleDot(b)
    THEN IF atEnd THEN Append(path, "") ELSE path
    ELSE Append(path, b)

\* the input without its tabs and newlines
RemoveTabOrNewline(s) ==
    LET f[i \in 0..Len(s)] ==
            IF i = 0 THEN ""
            ELSE IF IsTabOrNewline(SubSeq(s, i, i)) THEN f[i - 1]
            ELSE f[i - 1] \o SubSeq(s, i, i)
    IN  f[Len(s)]

\* the URL parser run on s from the path start state: the segments of the
\* path. Tabs and newlines are removed from the input first; then one leading
\* slash is skipped and the other characters are collected into segments,
\* percent-encoded one by one.
ParsePath(s) ==
    LET t == RemoveTabOrNewline(s)
        first == IF t # "" /\ IsSlash(SubSeq(t, 1, 1)) THEN 2 ELSE 1
        st[i \in (first - 1)..Len(t)] ==
            IF i = first - 1 THEN [path |-> <<>>, buffer |-> ""]
            ELSE LET c == SubSeq(t, i, i)
                     p == st[i - 1]
                 IN  IF IsSlash(c)
                     THEN [path |-> CloseSegment(p.path, p.buffer, FALSE),
                           buffer |-> ""]
                     ELSE [p EXCEPT !.buffer = @ \o EncodeChar(c)]
        end == st[Len(t)]
    IN  CloseSegment(end.path, end.buffer, TRUE)

\* the path serialiser: a slash before every segment
SerializePath(path) ==
    LET ser[i \in 0..Len(path)] ==
            IF i = 0 THEN "" ELSE ser[i - 1] \o "/" \o path[i]
    IN  ser[Len(path)]

\* what url.pathname reads after url.pathname = s
EncodePath(s) == SerializePath(ParsePath(s))

\* url.pathname = v: the URL keeps its origin and its query
SetPathname(u, v) == [u EXCEPT !.pathname = EncodePath(v)]

\* paths of static assets and of the framework's own files, with near misses
AssetPaths == {"/_next/static/chunk.js", "/_next/staticfoo", "/_next/image",
               "/favicon.ico", "/favicon.icon", "/faviconxico", "/logo.png",
               "/img/a.jpeg", "/pic.webp", "/a.pngx"}

Urls == [origin : {Origin}, pathname : Paths \cup AssetPaths, query : Queries]

NoUrl == [origin |-> "", pathname |-> "", query |-> <<>>]

(***************************************************************************)
(* The user's languages: the table user_languages, the server actions of   *)
(* lib/actions/languages.js working on it, and the browsers calling them.  *)
(***************************************************************************)
\* the browsers (or tabs) showing the dashboard
Browsers == {1, 2}

Users == {"u1", "u2"}

\* the user prop of the DashboardContent in browser b, who is the user
\* getUser reports to the server actions the browser calls while the
\* browser's session is good
UserOf(b) == ui[b].user

\* the ids of the catalog table languages, which user_languages.language_id
\* refers to
Languages == {"en", "es"}

\* form values of languageId: catalog ids, an id not in the catalog, none
LanguageIds == Languages \cup {"zz", ""}

\* form values of userLanguageId: ids of rows, 0 for a missing value
UserLanguageIds == 0..MaxRows

\* form values of isPrimary
PrimaryValues == {"true", "false"}

\* form values of proficiencyLevel in an update
Levels == {"A1"}

\* what the client holds of a user language: its id and whether the object
\* carries the joined languages record
UserLanguage(id, joined) == [id |-> id, languages |-> joined]

NoUserLanguage == UserLanguage(0, FALSE)

\* what a server action returns
Success ==
    [success |-> TRUE, error |-> "", userLanguage |-> NoUserLanguage,
     userLanguages |-> <<>>, hasLanguages |-> FALSE]

Failure(message) == [Success EXCEPT !.success = FALSE, !.error = message]

\* a browser without a call in flight; a call in flight holds the outcome of
\* getUser, the form values it has read and, for reference, the table as it
\* was when the call began; it is detached once the document that made it
\* has been replaced, so that nobody is left to take its result
Idle ==
    [op |-> "none", auth |-> "none", languageId |-> "", userLanguageId |-> 0,
     isPrimary |-> "false", proficiencyLevel |-> "", pc |-> "idle",
     result |-> Failure(""), before |-> <<>>, detached |-> FALSE]

\* DashboardContent as mounted with an empty initialUserLanguages
Mounted(user) ==
    [user |-> user, list |-> <<>>, selector |-> FALSE, added |-> 0,
     reloading |-> FALSE]

\* every user in a browser of their own
OwnBrowsers == [b \in Browsers |-> Mounted(IF b = 1 THEN "u1" ELSE "u2")]

\* LanguageSelector is not on the page
SelectorOff ==
    /\ languages = <<>>
    /\ searchTerm = ""
    /\ selectedCategory = "off"
    /\ filteredLanguages = <<>>
    /\ effectPending = FALSE

LangIdle ==
    /\ rows = <<>>
    /\ profiles = {}
    /\ calls = [b \in Browsers |-> Idle]
    /\ ui = OwnBrowsers
    /\ begun = 0

(***************************************************************************)
(* The middleware (route guard).                                           *)
(***************************************************************************)
\* NextResponse.next(): the request proceeds unmodified
Continue == [kind |-> "next", url |-> NoUrl]

\* NextResponse.redirect(url)
Redirect(u) == [kind |-> "redirect", url |-> u]

\* an exception left the middleware function
Thrown == [kind |-> "throw", url |-> NoUrl]

\* no answer yet
Pending == [kind |-> "pending", url |-> NoUrl]

\* no earlier request
NoPrev == [req |-> NoUrl, lookup |-> "none", decision |-> Pending]

\* const { data: { session }, error } = await supabase.auth.getSession()
HasSession(r) == r = "Valid"

HasError(r) == r = "Error"

isAuthPage(pathname) ==
    StartsWith(pathname, "/login") \/ StartsWith(pathname, "/auth")

isProtectedRoute_AuthToo(pathname) ==
    StartsWith(pathname, "/dashboard") \/ StartsWith(pathname, "/auth")

isProtectedRoute(pathname) == StartsWith(pathname, "/dashboard")

\* on an auth error: to /login, error=session_error
SessionErrorRedirect(u) ==
    [SetPathname(u, "/login") EXCEPT !.query = Set(@, "error", "session_error")]

\* authenticated users leave the auth pages: to /dashboard
AuthPageRedirect(u) == SetPathname(u, "/dashboard")

\* unauthenticated request of a protected route: to /login, redirectTo=<path>
ProtectRedirect(u) ==
    [SetPathname(u, "/login") EXCEPT !.query = Set(@, "redirectTo", u.pathname)]

PostLoginRedirect_KeepParam(u) == SetPathname(u, Get(u.query, "redirectTo"))

\* the redirectTo value resolved as a URL against the request instead of
\* assigned as the path: "//host" and "scheme://host" then name another origin
PostLoginRedirect_Resolve(u) ==
    LET v == Get(u.query, "redirectTo")
    IN  IF StartsWith(v, "//")
        THEN [origin |-> "https:" \o v, pathname |-> "/", query |-> <<>>]
        ELSE [SetPathname(u, v) EXCEPT !.query = Delete(@, "redirectTo")]

\* post-login redirect: to the redirectTo value, redirectTo deleted
PostLoginRedirect(u) ==
    [SetPathname(u, Get(u.query, "redirectTo"))
        EXCEPT !.query = Delete(@, "redirectTo")]

\* redirectTo && redirectTo.startsWith('/')
IsLocalTarget(v) == v # "" /\ StartsWith(v, "/")

\* the body of the try block after getSession has returned r
Decide(u, r) ==
    IF HasError(r) /\ ~isAuthPage(u.pathname)
    THEN Redirect(SessionErrorRedirect(u))
    ELSE IF /\ HasSession(r)
            /\ isAuthPage(u.pathname)
            /\ ~StartsWith(u.pathname, "/auth/callback")
    THEN Redirect(AuthPageRedirect(u))
    ELSE IF ~HasSession(r) /\ isProtectedRoute(u.pathname)
    THEN Redirect(ProtectRedirect(u))
    ELSE IF /\ HasSession(r)
            /\ Has(u.query, "redirectTo")
            /\ IsLocalTarget(Get(u.query, "redirectTo"))
    THEN Redirect(PostLoginRedirect(u))
    ELSE Continue

\* a middleware that keeps the session it has looked up in a variable of
\* the module and decides the requests that follow with it
middleware_CachedSession(u, clientOk, r) ==
    IF ~clientOk THEN Thrown
    ELSE IF r = "Throws" THEN Continue
    ELSE IF prev.lookup \in {"Valid", "Absent", "Error"}
    THEN Decide(u, prev.lookup)
    ELSE Decide(u, r)

\* the whole middleware for a request u: createMiddlewareClient is called
\* before the try block, getSession and the decision inside it
middleware(u, clientOk, r) ==
    IF ~clientOk THEN Thrown
    ELSE IF r = "Throws" THEN Continue
    ELSE Decide(u, r)

(***************************************************************************)
(* config.matcher: the framework runs the middleware only for the paths    *)
(* the pattern matches. The pattern is a leading slash followed by a rest  *)
(* of any characters, guarded by a negative lookahead at the start of the  *)
(* rest with four alternatives: _next/static, _next/image, favicon.ico,    *)
(* and any text that ends in a dot and one of six image extensions.        *)
(***************************************************************************)
ImageExtensions == {"svg", "png", "jpg", "jpeg", "gif", "webp"}

\* the fourth alternative: some dot of s is followed by one of the
\* extensions and then the end of s
EndsWithImageExtension(s) ==
    \E i \in 1..Len(s) :
        /\ SubSeq(s, i, i) = "."
        /\ SubSeq(s, i + 1, Len(s)) \in ImageExtensions

\* favicon.ico at the start of s; the dot of the pattern is not escaped and
\* stands for any one character
StartsWithFavicon(s) ==
    /\ Len(s) >= 11
    /\ SubSeq(s, 1, 7) = "favicon"
    /\ SubSeq(s, 9, 11) = "ico"

\* the negative lookahead's alternatives, tried at the start of s
Lookahead(s) ==
    \/ StartsWith(s, "_next/static")
    \/ StartsWith(s, "_next/image")
    \/ StartsWithFavicon(s)
    \/ EndsWithImageExtension(s)

\* the pattern matches pathname: the middleware runs for it
matcher(pathname) ==
    /\ StartsWith(pathname, "/")
    /\ ~Lookahead(SubSeq(pathname, 2, Len(pathname)))

\* a request for a path the pattern does not match goes to its route without
\* the middleware
MatcherSkips ==
    /\ pc = "idle"
    /\ ~matcher(req.pathname)
    /\ pc' = "skipped"
    /\ UNCHANGED <<req, lookups, lookup, decision, prev>>
    /\ UNCHANGED navVars
    /\ UNCHANGED langVars
    /\ UNCHANGED selectorVars

\* middleware(req) up to its await: the response object and the client are
\* created, then getSession is called
MiddlewareEnter(clientOk) ==
    /\ pc = "idle"
    /\ matcher(req.pathname)
    /\ IF clientOk
       THEN /\ pc' = "awaitSession"
            /\ lookups' = lookups + 1
            /\ decision' = Pending
       ELSE /\ pc' = "done"
            /\ lookups' = lookups
            /\ decision' = middleware(req, FALSE, "Absent")
    /\ UNCHANGED <<req, lookup, prev>>
    /\ UNCHANGED navVars
    /\ UNCHANGED langVars
    /\ UNCHANGED selectorVars

\* getSession settles with r; the middleware decides and returns
GetSessionReturns(r) ==
    /\ pc = "awaitSession"
    /\ lookup' = r
    /\ decision' = middleware(req, TRUE, r)
    /\ pc' = "done"
    /\ UNCHANGED <<req, lookups, prev>>
    /\ UNCHANGED navVars
    /\ UNCHANGED langVars
    /\ UNCHANGED selectorVars

NavIdle ==
    /\ url = NoUrl
    /\ phase = "idle"
    /\ page = "none"
    /\ session = "Absent"
    /\ userResult = "none"
    /\ intent = ""
    /\ signedIn = FALSE
    /\ last = "none"
    /\ loggedOut = FALSE
    /\ clientSession = FALSE
    /\ document = FALSE

Init ==
    /\ req \in Urls
    /\ pc = "idle"
    /\ lookups = 0
    /\ lookup = "none"
    /\ decision = Pending
    /\ prev = NoPrev
    /\ NavIdle
    /\ LangIdle
    /\ SelectorOff

Next ==
    \/ MatcherSkips
    \/ \E clientOk \in BOOLEAN : MiddlewareEnter(clientOk)
    \/ \E r \in SessionResults : GetSessionReturns(r)

Spec == Init /\ [][Next]_vars

(***************************************************************************)
(* One server answering request after request: the framework calls         *)
(* middleware(request) anew for each of them. The module of the middleware *)
(* has no variable outside the function, so nothing but the request is     *)
(* handed from one call to the next; prev only remembers, for the          *)
(* comparison of two calls, what an earlier call was given and answered.   *)
(***************************************************************************)
\* longest query string of a request in a sequence of requests
MaxSeqQuery == 1

SeqPairs == {[k |-> "redirectTo", v |-> "/dashboard/settings"],
             [k |-> "redirectTo", v |-> "https://evil.example"],
             [k |-> "error", v |-> "abc"]}

\* a public path, an auth page, the callback and a protected path
SeqPaths == {"/", "/login", "/auth/callback", "/dashboard"}

SeqUrls == [origin : {Origin}, pathname : SeqPaths,
            query : SeqsUpTo(SeqPairs, MaxSeqQuery)]

\* the call for the current request has returned or thrown; the framework
\* calls the middleware for the next request u
NextRequest(u, remember) ==
    /\ pc = "done"
    /\ req' = u
    /\ pc' = "idle"
    /\ lookups' = 0
    /\ lookup' = "none"
    /\ decision' = Pending
    /\ prev' = IF remember
               THEN [req |-> req, lookup |-> lookup, decision |-> decision]
               ELSE prev
    /\ UNCHANGED navVars
    /\ UNCHANGED langVars
    /\ UNCHANGED selectorVars

SeqInit ==
    /\ req \in SeqUrls
    /\ pc = "idle"
    /\ lookups = 0
    /\ lookup = "none"
    /\ decision = Pending
    /\ prev = NoPrev
    /\ NavIdle
    /\ LangIdle
    /\ SelectorOff

SeqNext ==
    \/ \E clientOk \in BOOLEAN : MiddlewareEnter(clientOk)
    \/ \E r \in SessionResults : GetSessionReturns(r)
    \/ \E u \in SeqUrls, remember \in BOOLEAN : NextRequest(u, remember)

SeqSpec == SeqInit /\ [][SeqNext]_vars

(***************************************************************************)
(* Navigation: the browser requests a URL, the middleware answers, the     *)
(* route's page or handler runs, and the browser follows every redirect.   *)
(* session and userResult are what the identity store answers during the   *)
(* visit; signing in changes them.                                         *)
(***************************************************************************)
\* getUser's outcomes, { data: { user }, error }: a user, neither, an error
UserResults == {"user", "none", "error"}

\* the outcomes of exchangeCodeForSession(code)
ExchangeResults == {"session", "error", "throws", "neither"}

\* new URL(path, requestUrl.origin) and redirect(path): a URL of this origin
LocalUrl(pathname, q) == [origin |-> Origin, pathname |-> pathname, query |-> q]

\* the user opens a URL in the browser: a visit starts
Navigate(p, q) ==
    /\ phase = "idle"
    /\ url' = LocalUrl(p, q)
    /\ phase' = "guard"
    /\ page' = "none"
    /\ intent' = ""
    /\ signedIn' = FALSE
    /\ last' = "navigate"
    /\ UNCHANGED <<session, userResult>>
    /\ UNCHANGED loggedOut
    /\ UNCHANGED clientSession
    /\ document' = TRUE
    /\ UNCHANGED guardVars
    /\ UNCHANGED langVars
    /\ UNCHANGED selectorVars

\* the middleware answers the browser's request; the browser follows a
\* redirect with a new request, and a passed request reaches its route
Guard ==
    /\ phase = "guard"
    /\ LET d == middleware(url, TRUE, session)
       IN  IF d.kind = "redirect"
           THEN /\ url' = d.url
                /\ phase' = "guard"
                /\ intent' = IF ~HasSession(session) /\ ~HasError(session)
                                /\ isProtectedRoute(url.pathname)
                             THEN url.pathname
                             ELSE intent
                /\ last' = "guardRedirect"
           ELSE /\ url' = url
                /\ phase' = "handler"
                /\ intent' = intent
                /\ last' = "guardContinue"
    /\ UNCHANGED <<page, session, userResult, signedIn>>
    /\ UNCHANGED loggedOut
    /\ UNCHANGED clientSession
    /\ UNCHANGED document
    /\ UNCHANGED guardVars
    /\ UNCHANGED langVars
    /\ UNCHANGED selectorVars

MustLogin_IgnoreError(ur) == ur = "none"

\* if (error || !user) redirect('/login')
MustLogin(ur) == ur # "user"

\* app/dashboard/page.jsx, the route /dashboard
DashboardPage ==
    /\ phase = "handler"
    /\ url.pathname = "/dashboard"
    /\ IF MustLogin(userResult)
       THEN /\ url' = LocalUrl("/login", <<>>)
            /\ phase' = "guard"
            /\ page' = page
            /\ last' = "dashboardRedirect"
       ELSE /\ url' = url
            /\ phase' = "rendered"
            /\ page' = "dashboard"
            /\ last' = "dashboardRender"
    /\ UNCHANGED <<session, userResult, intent, signedIn>>
    /\ UNCHANGED loggedOut
    /\ UNCHANGED clientSession
    /\ UNCHANGED document
    /\ UNCHANGED guardVars
    /\ UNCHANGED langVars
    /\ UNCHANGED selectorVars

\* what the browser shows once the server's render of a page has thrown:
\* the page, which React renders in the browser instead, or the error page;
\* which of them depends on the build
PrerenderResults == {"clientRender", "errorPage"}

\* app/login/page.jsx, the route /login. The page reads window.location in
\* its render, and window is not defined in the server: for a document
\* request the server's render throws a ReferenceError, and the page is on
\* screen only if the browser renders it after that (o). In a navigation
\* inside the application the browser alone renders the page. Once on
\* screen, the page's effect calls getSession and subscribes to the auth
\* changes
LoginPage(o) ==
    /\ phase = "handler"
    /\ url.pathname = "/login"
    /\ url' = url
    /\ IF document /\ o = "errorPage"
       THEN /\ phase' = "crashed"
            /\ page' = "error"
            /\ last' = "loginThrows"
       ELSE /\ phase' = "rendered"
            /\ page' = "login"
            /\ last' = IF document THEN "loginClientRender" ELSE "loginRender"
    /\ UNCHANGED <<session, userResult, intent, signedIn>>
    /\ UNCHANGED loggedOut
    /\ UNCHANGED clientSession
    /\ UNCHANGED document
    /\ UNCHANGED guardVars
    /\ UNCHANGED langVars
    /\ UNCHANGED selectorVars

\* what getSession of the browser's own client can give while the
\* middleware's getSession gives s: the same when that lookup worked, a
\* session or none when it failed
BrowserSessions(s) ==
    IF s = "Valid" THEN {TRUE}
    ELSE IF s = "Absent" THEN {FALSE}
    ELSE BOOLEAN

\* LoginPage's checkUser, called once when the page mounts: getSession
\* settles while the login page is on screen; with a session the page pushes
\* /dashboard, without one nothing happens and the page stays
checkUser ==
    /\ phase = "rendered"
    /\ page = "login"
    /\ clientSession
    /\ url' = LocalUrl("/dashboard", <<>>)
    /\ phase' = "guard"
    /\ page' = "none"
    /\ last' = "loginPush"
    /\ UNCHANGED <<session, userResult, intent, signedIn>>
    /\ UNCHANGED loggedOut
    /\ UNCHANGED clientSession
    /\ document' = FALSE
    /\ UNCHANGED guardVars
    /\ UNCHANGED langVars
    /\ UNCHANGED selectorVars

\* the user signs in on the login page: onAuthStateChange fires SIGNED_IN
\* with a session and the page pushes /dashboard
SignIn ==
    /\ phase = "rendered"
    /\ page = "login"
    /\ session' = "Valid"
    /\ userResult' = "user"
    /\ signedIn' = TRUE
    /\ url' = LocalUrl("/dashboard", <<>>)
    /\ phase' = "guard"
    /\ page' = "none"
    /\ last' = "signIn"
    /\ loggedOut' = FALSE
    /\ clientSession' = TRUE
    /\ UNCHANGED intent
    /\ document' = FALSE
    /\ UNCHANGED guardVars
    /\ UNCHANGED langVars
    /\ UNCHANGED selectorVars

\* the user signs in with a provider or a magic link: the identity provider
\* sends the browser to <origin>/auth/callback with a code
ProviderReturn ==
    /\ phase = "rendered"
    /\ page = "login"
    /\ url' = LocalUrl("/auth/callback", <<[k |-> "code", v |-> "abc"]>>)
    /\ phase' = "guard"
    /\ page' = "none"
    /\ last' = "providerReturn"
    /\ UNCHANGED <<session, userResult, intent, signedIn>>
    /\ UNCHANGED loggedOut
    /\ UNCHANGED clientSession
    /\ document' = TRUE
    /\ UNCHANGED guardVars
    /\ UNCHANGED langVars
    /\ UNCHANGED selectorVars

\* what GET answers: code is searchParams.get('code'), "" when the parameter
\* is absent or empty (both falsy); with a code, cookies() and
\* createServerActionClient run before the try block, so that the handler
\* throws when they do (clientOk = FALSE); x is the outcome of the exchange
\* inside the try block
GET(code, clientOk, x) ==
    IF code # "" /\ ~clientOk
    THEN Thrown
    ELSE IF code # "" /\ x = "error"
    THEN Redirect(LocalUrl("/login",
                           <<[k |-> "error", v |-> "auth_callback_error"]>>))
    ELSE IF code # "" /\ x = "session"
    THEN Redirect(LocalUrl("/dashboard", <<>>))
    ELSE IF code # "" /\ x = "throws"
    THEN Redirect(LocalUrl("/login",
                           <<[k |-> "error", v |-> "unexpected_error"]>>))
    ELSE Redirect(LocalUrl("/login", <<>>))

\* the step GET took: without a code no client is made and no exchange is
\* attempted; with a code the making of the client threw, or the exchange
\* had the outcome x
CallbackStep(code, clientOk, x) ==
    IF code = "" THEN "callback"
    ELSE IF ~clientOk THEN "callback:clientThrows"
    ELSE "callback:" \o x

\* app/auth/callback/route.js GET, the route /auth/callback: the browser
\* follows the redirect, or shows the error the framework answers with when
\* the handler has thrown
AuthCallbackGET(clientOk, x) ==
    /\ phase = "handler"
    /\ url.pathname = "/auth/callback"
    /\ LET code == Get(url.query, "code")
           answer == GET(code, clientOk, x)
       IN  /\ last' = CallbackStep(code, clientOk, x)
           /\ IF answer.kind = "throw"
              THEN /\ url' = url
                   /\ phase' = "crashed"
                   /\ page' = "error"
              ELSE /\ url' = answer.url
                   /\ phase' = "guard"
                   /\ page' = page
           /\ IF answer.kind = "redirect" /\ code # "" /\ x = "session"
              THEN /\ session' = "Valid"
                   /\ userResult' = "user"
                   /\ signedIn' = TRUE
                   /\ loggedOut' = FALSE
                   /\ clientSession' = TRUE
              ELSE UNCHANGED <<session, userResult, signedIn, loggedOut,
                               clientSession>>
    /\ UNCHANGED intent
    /\ UNCHANGED document
    /\ UNCHANGED guardVars
    /\ UNCHANGED langVars
    /\ UNCHANGED selectorVars

\* the outcomes of supabase.auth.signOut(): the session is removed, or an
\* error is returned and the session stays as it was
SignOutResults == {"ok", "error"}

\* app/dashboard/LogoutForm.jsx logout(), the server action behind the
\* dashboard's Sign Out button: signOut, then redirect('/') whether or not
\* signOut returned an error
Logout(o) ==
    /\ phase = "rendered"
    /\ page = "dashboard"
    /\ IF o = "ok"
       THEN /\ session' = "Absent"
            /\ userResult' = "none"
            /\ clientSession' = FALSE
       ELSE UNCHANGED <<session, userResult, clientSession>>
    /\ url' = LocalUrl("/", <<>>)
    /\ phase' = "guard"
    /\ page' = "none"
    /\ intent' = ""
    /\ signedIn' = FALSE
    /\ last' = "logout"
    /\ loggedOut' = TRUE
    /\ document' = FALSE
    /\ UNCHANGED guardVars
    /\ UNCHANGED langVars
    /\ UNCHANGED selectorVars

\* app/page.js, the route /: the public home page
HomePage ==
    /\ phase = "handler"
    /\ url.pathname = "/"
    /\ phase' = "rendered"
    /\ page' = "home"
    /\ last' = "homeRender"
    /\ UNCHANGED <<url, session, userResult, intent, signedIn>>
    /\ UNCHANGED loggedOut
    /\ UNCHANGED clientSession
    /\ UNCHANGED document
    /\ UNCHANGED guardVars
    /\ UNCHANGED langVars
    /\ UNCHANGED selectorVars

\* Home's handleLogout, behind the Logout button the home page shows while
\* its user state, set from the browser client's getSession and its auth
\* events, holds a user: signOut, and the page stays
handleLogout(o) ==
    /\ phase = "rendered"
    /\ page = "home"
    /\ clientSession
    /\ IF o = "ok"
       THEN /\ session' = "Absent"
            /\ userResult' = "none"
            /\ clientSession' = FALSE
       ELSE UNCHANGED <<session, userResult, clientSession>>
    /\ last' = "homeLogout"
    /\ UNCHANGED <<url, phase, page, intent, signedIn>>
    /\ UNCHANGED loggedOut
    /\ UNCHANGED document
    /\ UNCHANGED guardVars
    /\ UNCHANGED langVars
    /\ UNCHANGED selectorVars

\* the home page's link: "Go to Dashboard" while Home's user state holds a
\* user, "Sign In" or "Get Started" (both /login) otherwise
FollowLink ==
    /\ phase = "rendered"
    /\ page = "home"
    /\ url' = LocalUrl(IF clientSession THEN "/dashboard" ELSE "/login", <<>>)
    /\ phase' = "guard"
    /\ page' = "none"
    /\ intent' = ""
    /\ signedIn' = FALSE
    /\ last' = "followLink"
    /\ UNCHANGED <<session, userResult>>
    /\ UNCHANGED loggedOut
    /\ UNCHANGED clientSession
    /\ document' = FALSE
    /\ UNCHANGED guardVars
    /\ UNCHANGED langVars
    /\ UNCHANGED selectorVars

\* the paths the application has a route for
Routes == {"/", "/login", "/dashboard", "/auth/callback"}

\* any other path: the framework's not-found page
NotFound ==
    /\ phase = "handler"
    /\ url.pathname \notin Routes
    /\ phase' = "rendered"
    /\ page' = "notfound"
    /\ last' = "notFound"
    /\ UNCHANGED <<url, session, userResult, intent, signedIn>>
    /\ UNCHANGED loggedOut
    /\ UNCHANGED clientSession
    /\ UNCHANGED document
    /\ UNCHANGED guardVars
    /\ UNCHANGED langVars
    /\ UNCHANGED selectorVars

GuardOff ==
    /\ req = NoUrl
    /\ pc = "off"
    /\ lookups = 0
    /\ lookup = "none"
    /\ decision = Pending
    /\ prev = NoPrev

NavInit ==
    /\ GuardOff
    /\ url = NoUrl
    /\ phase = "idle"
    /\ page = "none"
    /\ session \in SessionResults
    /\ userResult \in UserResults
    /\ intent = ""
    /\ signedIn = FALSE
    /\ last = "none"
    /\ loggedOut = FALSE
    /\ clientSession \in BrowserSessions(session)
    /\ document = FALSE
    /\ LangIdle
    /\ SelectorOff

\* what the servers and the browser do without the user
Serve ==
    \/ Guard
    \/ DashboardPage
    \/ \E o \in PrerenderResults : LoginPage(o)
    \/ checkUser
    \/ \E clientOk \in BOOLEAN, x \in ExchangeResults :
          AuthCallbackGET(clientOk, x)
    \/ HomePage
    \/ NotFound

NavNext ==
    \/ \E p \in Paths, q \in NavQueries : Navigate(p, q)
    \/ FollowLink
    \/ SignIn
    \/ ProviderReturn
    \/ \E o \in SignOutResults : Logout(o)
    \/ \E o \in SignOutResults : handleLogout(o)
    \/ Serve

NavSpec == NavInit /\ [][NavNext]_vars

\* every request is answered and every redirect is followed
FairNavSpec == NavSpec /\ WF_vars(Serve)

(***************************************************************************)
(* Server actions on user_languages. A call runs from one await to the     *)
(* next: each database request is a step of its own, and the call's        *)
(* result stays with the call until the browser takes it.                  *)
(***************************************************************************)
\* if (userError || !user): the call goes on only with a user
Authenticated_Always(auth) == TRUE

Authenticated(auth) == auth = "user"

\* the rows of t a filter selects, as the set of their positions
Matching(t, user, languageId) ==
    {i \in 1..Len(t) : t[i].user_id = user /\ t[i].language_id = languageId}

\* .single(): data only when exactly one row was selected
Single(S) == Cardinality(S) = 1

\* update({ is_primary: false }).eq('user_id', user.id)
UnsetPrimary(t, user) ==
    [i \in 1..Len(t) |->
        IF t[i].user_id = user THEN [t[i] EXCEPT !.is_primary = FALSE] ELSE t[i]]

\* proficiencyLevel || 'A1'
LevelOrDefault(level) == IF level = "" THEN "A1" ELSE level

\* insert({ user_id, language_id, ..., is_primary, is_active: true })
NewRow(t, user, languageId, level, primary) ==
    [id |-> Len(t) + 1, user_id |-> user, language_id |-> languageId,
     is_primary |-> primary, is_active |-> TRUE, proficiency_level |-> level]

Owned_AnyUser(t, id, user) == {i \in 1..Len(t) : t[i].id = id}

\* .eq('id', userLanguageId).eq('user_id', user.id)
Owned(t, id, user) == {i \in 1..Len(t) : t[i].id = id /\ t[i].user_id = user}

\* update({ proficiency_level, ..., is_primary }) of the rows in S
UpdateRows(t, S, level, primary) ==
    [i \in 1..Len(t) |->
        IF i \in S
        THEN [t[i] EXCEPT !.proficiency_level = level, !.is_primary = primary]
        ELSE t[i]]

SoftDelete_Unprimary(t, S) ==
    [i \in 1..Len(t) |->
        IF i \in S THEN [t[i] EXCEPT !.is_active = FALSE, !.is_primary = FALSE]
        ELSE t[i]]

\* update({ is_active: false }) of the rows in S
SoftDelete(t, S) ==
    [i \in 1..Len(t) |->
        IF i \in S THEN [t[i] EXCEPT !.is_active = FALSE] ELSE t[i]]

\* .eq('user_id', user.id).eq('is_active', true)
ActiveRows(t, user) ==
    {i \in 1..Len(t) : t[i].user_id = user /\ t[i].is_active}

\* the rows S of t as the client gets them from getUserLanguages: primary
\* rows first, then by creation, each with its joined languages record
Ordered(t, S) ==
    LET First(r) == r.id \in S /\ r.is_primary
        Then(r) == r.id \in S /\ ~r.is_primary
        all == SelectSeq(t, First) \o SelectSeq(t, Then)
    IN  [i \in 1..Len(all) |-> UserLanguage(all[i].id, TRUE)]

\* the call of browser b ends with result r
Finish(c, r) == [c EXCEPT !.pc = "done", !.result = r]

\* what a request on user_languages comes back with: { data, error: null },
\* or an error (the request did not reach the database, or the database
\* refused it) with nothing written
RequestResults == {"ok", "error"}

NoCallInProgress == \A b \in Browsers : calls[b].pc = "idle"

\* the calls that are about to insert a row
Inserting ==
    {b \in Browsers : calls[b].op = "selectLanguage"
                      /\ calls[b].pc \in {"check", "unset", "insert"}}

\* selectLanguage(formData) up to its first database request; the form is
\* the LanguageSelector's, here without a proficiencyLevel
selectLanguageBegin(b, auth, languageId, isPrimary) ==
    /\ calls[b].pc = "idle"
    /\ ui[b].selector
    /\ \/ Len(rows) + Cardinality(Inserting) < MaxRows
       \/ ~Authenticated(auth)
       \/ languageId = ""
       \/ Single(Matching(rows, UserOf(b), languageId)) /\ Inserting = {}
    /\ LET c == [Idle EXCEPT !.op = "selectLanguage", !.auth = auth,
                             !.before = rows]
       IN  calls' = [calls EXCEPT ![b] =
               IF ~Authenticated(auth)
               THEN Finish(c, Failure("User not authenticated"))
               ELSE IF languageId = ""
               THEN Finish(c, Failure("Language ID is required"))
               ELSE [c EXCEPT !.languageId = languageId,
                              !.isPrimary = isPrimary, !.pc = "check"]]
    /\ UNCHANGED <<rows, profiles, ui>>

\* selectLanguage: the check whether the user already has the language; the
\* code reads only data of the answer, which is null as well when the
\* request failed (o = "error"), and then goes on as for a new language
selectLanguageCheck(b, o) ==
    /\ calls[b].op = "selectLanguage"
    /\ calls[b].pc = "check"
    /\ o = "error" => Len(rows) + Cardinality(Inserting) <= MaxRows
    /\ calls' = [calls EXCEPT ![b] =
           IF o = "ok" /\ Single(Matching(rows, UserOf(b), calls[b].languageId))
           THEN Finish(@, Failure("You have already selected this language"))
           ELSE [@ EXCEPT !.pc = IF calls[b].isPrimary = "true"
                                 THEN "unset" ELSE "insert"]]
    /\ UNCHANGED <<rows, profiles, ui>>

\* selectLanguage: if (isPrimary) the user's primary flags are unset; the
\* answer of this update is not read, so the call goes on to the insert
\* whether the flags were unset or not
selectLanguageUnset(b, o) ==
    /\ calls[b].op = "selectLanguage"
    /\ calls[b].pc = "unset"
    /\ rows' = IF o = "ok" THEN UnsetPrimary(rows, UserOf(b)) ELSE rows
    /\ calls' = [calls EXCEPT ![b].pc = "insert"]
    /\ UNCHANGED <<profiles, ui>>

\* selectLanguage: the insert, which the database refuses for a language_id
\* that is not in the catalog; the call keeps the inserted row as
\* newUserLanguage and goes on to the upsert of the profile
selectLanguageInsert(b, o) ==
    /\ calls[b].op = "selectLanguage"
    /\ calls[b].pc = "insert"
    /\ IF o = "ok" /\ calls[b].languageId \in Languages
       THEN LET r == NewRow(rows, UserOf(b), calls[b].languageId,
                            LevelOrDefault(calls[b].proficiencyLevel),
                            calls[b].isPrimary = "true")
            IN  /\ rows' = Append(rows, r)
                /\ calls' = [calls EXCEPT ![b] =
                       [@ EXCEPT !.pc = "upsert",
                                 !.result = [Success EXCEPT !.userLanguage =
                                                UserLanguage(r.id, FALSE)]]]
       ELSE /\ calls' = [calls EXCEPT ![b] =
                   Finish(@, Failure("Failed to add language"))]
            /\ UNCHANGED rows
    /\ UNCHANGED <<profiles, ui>>

\* selectLanguage: the upsert of the caller's row in user_profiles, then the
\* return of the inserted row; the answer of the upsert is not read, so the
\* call succeeds whether the profile was written or not
selectLanguageUpsert(b, o) ==
    /\ calls[b].op = "selectLanguage"
    /\ calls[b].pc = "upsert"
    /\ profiles' = IF o = "ok" THEN profiles \cup {UserOf(b)} ELSE profiles
    /\ calls' = [calls EXCEPT ![b].pc = "done"]
    /\ UNCHANGED <<rows, ui>>

\* updateLanguagePreferences(formData) up to its first database request
updateLanguagePreferencesBegin(b, auth, id, isPrimary, level) ==
    /\ calls[b].pc = "idle"
    /\ LET c == [Idle EXCEPT !.op = "updateLanguagePreferences",
                             !.auth = auth, !.before = rows]
       IN  calls' = [calls EXCEPT ![b] =
               IF ~Authenticated(auth)
               THEN Finish(c, Failure("User not authenticated"))
               ELSE IF id = 0
               THEN Finish(c, Failure("User language ID is required"))
               ELSE [c EXCEPT !.userLanguageId = id,
                              !.isPrimary = isPrimary,
                              !.proficiencyLevel = level,
                              !.pc = IF isPrimary = "true"
                                     THEN "unset" ELSE "update"]]
    /\ UNCHANGED <<rows, profiles, ui>>

\* updateLanguagePreferences: if (isPrimary) the user's primary flags are
\* unset; the answer of this update is not read, so the call goes on to the
\* update of the row whether the flags were unset or not
updateLanguagePreferencesUnset(b, o) ==
    /\ calls[b].op = "updateLanguagePreferences"
    /\ calls[b].pc = "unset"
    /\ rows' = IF o = "ok" THEN UnsetPrimary(rows, UserOf(b)) ELSE rows
    /\ calls' = [calls EXCEPT ![b].pc = "update"]
    /\ UNCHANGED <<profiles, ui>>

\* updateLanguagePreferences: the update of the caller's row with the given
\* id; .single() gives an error when no row was updated, and so does a
\* request that failed
updateLanguagePreferencesUpdate(b, o) ==
    /\ calls[b].op = "updateLanguagePreferences"
    /\ calls[b].pc = "update"
    /\ LET S == IF o = "ok"
                THEN Owned(rows, calls[b].userLanguageId, UserOf(b))
                ELSE {}
       IN  /\ rows' = UpdateRows(rows, S, calls[b].proficiencyLevel,
                                 calls[b].isPrimary = "true")
           /\ calls' = [calls EXCEPT ![b] =
                  IF Single(S)
                  THEN Finish(@, [Success EXCEPT !.userLanguage =
                           UserLanguage(calls[b].userLanguageId, FALSE)])
                  ELSE Finish(@, Failure("Failed to update language preferences"))]
    /\ UNCHANGED <<profiles, ui>>

\* removeLanguage(formData) up to its database request
removeLanguageBegin(b, auth, id) ==
    /\ calls[b].pc = "idle"
    /\ LET c == [Idle EXCEPT !.op = "removeLanguage", !.auth = auth,
                             !.before = rows]
       IN  calls' = [calls EXCEPT ![b] =
               IF ~Authenticated(auth)
               THEN Finish(c, Failure("User not authenticated"))
               ELSE IF id = 0
               THEN Finish(c, Failure("User language ID is required"))
               ELSE [c EXCEPT !.userLanguageId = id, !.pc = "remove"]]
    /\ UNCHANGED <<rows, profiles, ui>>

\* removeLanguage: the caller's row with the given id is marked inactive; an
\* update that matches no row is no error, a request that failed is:
\* if (error) throw new Error('Failed to remove language')
removeLanguageRemove(b, o) ==
    /\ calls[b].op = "removeLanguage"
    /\ calls[b].pc = "remove"
    /\ IF o = "ok"
       THEN /\ rows' = SoftDelete(rows, Owned(rows, calls[b].userLanguageId,
                                              UserOf(b)))
            /\ calls' = [calls EXCEPT ![b] = Finish(@, Success)]
       ELSE /\ rows' = rows
            /\ calls' = [calls EXCEPT ![b] =
                   Finish(@, Failure("Failed to remove language"))]
    /\ UNCHANGED <<profiles, ui>>

\* getUserLanguages(): the caller's active rows, or a failure when the
\* select came back with an error
getUserLanguages(b, auth, o) ==
    /\ calls[b].pc = "idle"
    /\ LET c == [Idle EXCEPT !.op = "getUserLanguages", !.auth = auth]
       IN  calls' = [calls EXCEPT ![b] =
               IF ~Authenticated(auth)
               THEN Finish(c, Failure("User not authenticated"))
               ELSE IF o = "error"
               THEN Finish(c, Failure("Failed to fetch user languages"))
               ELSE Finish(c, [Success EXCEPT !.userLanguages =
                        Ordered(rows, ActiveRows(rows, UserOf(b)))])]
    /\ UNCHANGED <<rows, profiles, ui>>

\* hasUserSelectedLanguages(): whether the caller has an active row;
\* { success: false, hasLanguages: false } without a user and when the
\* select came back with an error
hasUserSelectedLanguages(b, auth, o) ==
    /\ calls[b].pc = "idle"
    /\ LET c == [Idle EXCEPT !.op = "hasUserSelectedLanguages", !.auth = auth]
       IN  calls' = [calls EXCEPT ![b] =
               IF ~Authenticated(auth) \/ o = "error"
               THEN Finish(c, Failure(""))
               ELSE Finish(c, [Success EXCEPT !.hasLanguages =
                        ActiveRows(rows, UserOf(b)) # {}])]
    /\ UNCHANGED <<rows, profiles, ui>>

(***************************************************************************)
(* The dashboard's client components.                                      *)
(***************************************************************************)
\* the list filter of DashboardContent and of UserLanguages:
\* ul && ul.languages
Listed(list) == SelectSeq(list, LAMBDA ul : ul.languages)

\* DashboardContent: hasLanguages
hasLanguages(list) == Len(Listed(list)) > 0

\* DashboardContent: handleAddAnotherLanguage and the welcome screen's
\* button open the LanguageSelector
OpenSelector(b) ==
    /\ ~ui[b].selector
    /\ ui' = [ui EXCEPT ![b].selector = TRUE]
    /\ UNCHANGED <<rows, profiles, calls>>

\* DashboardContent: the button "Back to Dashboard" above the
\* LanguageSelector closes it
BackToDashboard(b) ==
    /\ ui[b].selector
    /\ ui' = [ui EXCEPT ![b].selector = FALSE]
    /\ UNCHANGED <<rows, profiles, calls>>

\* DashboardContent: handleLanguageSelected(newUserLanguage)
handleLanguageSelected(u, newUserLanguage) ==
    [user |-> u.user, list |-> Append(u.list, newUserLanguage),
     selector |-> FALSE, added |-> newUserLanguage.id,
     reloading |-> u.reloading]

\* DashboardContent: handleLanguageUpdated calls window.location.reload() and
\* returns; the state of the component is as it was, and the document stays
\* in use (buttons, forms, calls) until the reloaded one replaces it
handleLanguageUpdated(u) == [u EXCEPT !.reloading = TRUE]

\* DashboardContent as the reloaded page mounts it: the list is
\* initialUserLanguages, the selector is closed (the page that hands over
\* initialUserLanguages is not among the sources; they are taken to be what
\* getUserLanguages returns for the table t)
DashboardContent(user, t) ==
    [Mounted(user) EXCEPT !.list = Ordered(t, ActiveRows(t, user))]

\* the reload asked for by handleLanguageUpdated completes: the server reads
\* the user's languages as they are now and the page mounts anew; a call
\* the old document has in flight goes on in the server, its result is no
\* longer awaited
Reload(b) ==
    /\ ui[b].reloading
    /\ ui' = [ui EXCEPT ![b] = DashboardContent(@.user, rows)]
    /\ calls' = [calls EXCEPT ![b].detached = calls[b].pc # "idle"]
    /\ UNCHANGED <<rows, profiles>>

\* the calls UserLanguages makes; their success goes to onLanguageUpdated
UserLanguagesCalls == {"updateLanguagePreferences", "removeLanguage"}

\* the browser takes the call's result: for a selectLanguage call this is
\* the rest of the LanguageSelector's handleFormSubmit, for an update or a
\* removal the rest of the handlers of UserLanguages; a failure only shows
\* an alert; the result of a detached call is dropped
Return(b) ==
    /\ calls[b].pc = "done"
    /\ calls' = [calls EXCEPT ![b] = Idle]
    /\ ui' = [ui EXCEPT ![b] =
           IF calls[b].detached
           THEN @
           ELSE IF calls[b].op = "selectLanguage" /\ calls[b].result.success
           THEN handleLanguageSelected(@, calls[b].result.userLanguage)
           ELSE IF calls[b].op \in UserLanguagesCalls /\ calls[b].result.success
           THEN handleLanguageUpdated(@)
           ELSE @]
    /\ UNCHANGED <<rows, profiles>>

\* the position of the guard and of the browser's navigation while only the
\* server actions are looked at
NavOff ==
    /\ url = NoUrl
    /\ phase = "off"
    /\ page = "dashboard"
    /\ session = "Valid"
    /\ userResult = "user"
    /\ intent = ""
    /\ signedIn = FALSE
    /\ last = "none"
    /\ loggedOut = FALSE
    /\ clientSession = TRUE
    /\ document = FALSE

LangInit ==
    /\ GuardOff
    /\ NavOff
    /\ LangIdle
    /\ SelectorOff

\* a browser starts a server action
Begin(b) ==
    \/ \E auth \in UserResults, l \in LanguageIds, p \in PrimaryValues :
          selectLanguageBegin(b, auth, l, p)
    \/ \E auth \in UserResults, id \in UserLanguageIds, p \in PrimaryValues,
          v \in Levels : updateLanguagePreferencesBegin(b, auth, id, p, v)
    \/ \E auth \in UserResults, id \in UserLanguageIds :
          removeLanguageBegin(b, auth, id)
    \/ \E auth \in UserResults, o \in RequestResults :
          getUserLanguages(b, auth, o)
    \/ \E auth \in UserResults, o \in RequestResults :
          hasUserSelectedLanguages(b, auth, o)

\* a call in flight takes its next step: the database answers its request
Step(b) ==
    \E o \in RequestResults :
        \/ selectLanguageCheck(b, o)
        \/ selectLanguageUnset(b, o)
        \/ selectLanguageInsert(b, o)
        \/ selectLanguageUpsert(b, o)
        \/ updateLanguagePreferencesUnset(b, o)
        \/ updateLanguagePreferencesUpdate(b, o)
        \/ removeLanguageRemove(b, o)

\* calls one after the other: a call starts only when none is in flight,
\* MaxCalls of them in all
LangNext ==
    /\ \E b \in Browsers :
          \/ /\ NoCallInProgress
             /\ begun < MaxCalls
             /\ Begin(b)
             /\ begun' = begun + 1
          \/ /\ \/ Step(b)
                \/ Return(b)
                \/ Reload(b)
                \/ OpenSelector(b)
                \/ BackToDashboard(b)
             /\ UNCHANGED begun
    /\ UNCHANGED guardVars
    /\ UNCHANGED navVars
    /\ UNCHANGED selectorVars

LangSpec == LangInit /\ [][LangNext]_vars

\* one user with the dashboard open in two tabs
SameUser == [b \in Browsers |-> Mounted("u1")]

ConcInit ==
    /\ GuardOff
    /\ NavOff
    /\ rows = <<>>
    /\ profiles = {}
    /\ calls = [b \in Browsers |-> Idle]
    /\ ui = SameUser
    /\ begun = 0
    /\ SelectorOff

\* an authenticated call that makes a language the primary one
BeginPrimary(b) ==
    \/ \E l \in Languages : selectLanguageBegin(b, "user", l, "true")
    \/ \E id \in UserLanguageIds, v \in Levels :
          updateLanguagePreferencesBegin(b, "user", id, "true", v)

\* calls side by side: the tabs start calls whenever they like, MaxCalls of
\* them in all, and the database requests of the calls in flight are served
\* in any order
ConcNext ==
    /\ \E b \in Browsers :
          \/ /\ begun < MaxCalls
             /\ BeginPrimary(b)
             /\ begun' = begun + 1
          \/ /\ \/ \E o \in RequestResults : selectLanguageCheck(b, o)
                \/ \E o \in RequestResults : selectLanguageUnset(b, o)
                \/ \E o \in RequestResults : selectLanguageInsert(b, o)
                \/ \E o \in RequestResults : selectLanguageUpsert(b, o)
                \/ \E o \in RequestResults :
                      updateLanguagePreferencesUnset(b, o)
                \/ \E o \in RequestResults :
                      updateLanguagePreferencesUpdate(b, o)
                \/ Return(b)
                \/ Reload(b)
                \/ OpenSelector(b)
                \/ BackToDashboard(b)
             /\ UNCHANGED begun
    /\ UNCHANGED guardVars
    /\ UNCHANGED navVars
    /\ UNCHANGED selectorVars

ConcSpec == ConcInit /\ [][ConcNext]_vars

(***************************************************************************)
(* LanguageSelector: the search box, the category buttons and the effect   *)
(* that recomputes the displayed list from the languages prop whenever the *)
(* search term, the category or the prop has changed.                      *)
(***************************************************************************)
\* longest list of languages the selector is given
MaxLanguages == 3

\* the upper-case letters of the model's strings, ASCII and U+00C0 to U+00DE,
\* and below them their lower-case forms
UpperCase == "ABCDEFGHIJKLMNOPQRSTUVWXYZÀÁÂÃÄÅÆÇÈÉÊËÌÍÎÏÐÑÒÓÔÕÖØÙÚÛÜÝÞ"

LowerCase == "abcdefghijklmnopqrstuvwxyzàáâãäåæçèéêëìíîïðñòóôõöøùúûüýþ"

\* each character's lower-case form: an upper-case letter's is the letter
\* below it, any other character's is the character itself
LowerOf ==
    [c \in Alphabet |->
        IF IndexOf(UpperCase, c) # 0
        THEN SubSeq(LowerCase, IndexOf(UpperCase, c), IndexOf(UpperCase, c))
        ELSE c]

\* the lower-case form of the one-character string c
LowerChar(c) == LowerOf[c]

\* String.prototype.toLowerCase
toLowerCase(s) ==
    LET f[i \in 0..Len(s)] ==
            IF i = 0 THEN "" ELSE f[i - 1] \o LowerChar(SubSeq(s, i, i))
    IN  f[Len(s)]

\* String.prototype.includes: this string ss contains the search string tt
includes(s, t) ==
    \E ss \in {s}, tt \in {t} :
        \E i \in 0..(Len(ss) - Len(tt)) : SubSeq(ss, i + 1, i + Len(tt)) = tt

\* rows of the table languages as getAvailableLanguages selects them
Language(name, native, code, family, level, featured) ==
    [name |-> name, native_name |-> native, code |-> code, family |-> family,
     difficulty_level |-> level, is_featured |-> featured]

AvailableLanguages ==
    {Language("English", "English", "en", "Indo-European", 1, TRUE),
     Language("Japanese", "Nihongo", "ja", "Japonic", 5, TRUE),
     Language("Hindi", "Hindi", "hi", "Indo-European", 4, FALSE),
     Language("Tibetan", "Bod skad", "bo", "Sino-Tibetan", 4, FALSE),
     Language("Hungarian", "Magyar", "hu", "Uralic", 2, FALSE)}

LanguageLists == SeqsUpTo(AvailableLanguages, MaxLanguages)

\* texts typed into the search box
SearchTerms == {"", "eng", "AN", "ja", "Hi"}

\* const categories: the ids of the category buttons
categories == {"all", "featured", "easy", "european", "asian"}

EuropeanCodes == {"en", "es", "fr", "de", "it", "pt", "nl", "sv", "no", "da",
                  "pl", "cs", "hu", "ro", "el"}

AsianCodes == {"ja", "ko", "zh", "hi", "th", "vi", "id"}

AsianFamilies == {"Sino-Tibetan", "Japonic", "Koreanic"}

\* the callback of the first filter
SearchFilter(lang, term) ==
    \/ includes(toLowerCase(lang.name), toLowerCase(term))
    \/ includes(toLowerCase(lang.native_name), toLowerCase(term))
    \/ includes(toLowerCase(lang.code), toLowerCase(term))

\* the callbacks of the filters in the switch
IsFeatured(lang) == lang.is_featured

IsEasy(lang) == lang.difficulty_level <= 2

IsEuropean(lang) ==
    lang.family = "Indo-European" /\ lang.code \in EuropeanCodes

IsAsian(lang) ==
    \/ lang.code \in AsianCodes
    \/ lang.family \in AsianFamilies

\* Array.prototype.filter with the search callback
FilterBySearch(ls, term) ==
    LET Keep(lang) == SearchFilter(lang, term) IN SelectSeq(ls, Keep)

\* the switch on selectedCategory; it has no default case
FilterByCategory(ls, category) ==
    CASE category = "featured" -> SelectSeq(ls, IsFeatured)
      [] category = "easy" -> SelectSeq(ls, IsEasy)
      [] category = "european" -> SelectSeq(ls, IsEuropean)
      [] category = "asian" -> SelectSeq(ls, IsAsian)
      [] OTHER -> ls

\* an effect whose category filter starts again from the prop
filtered_CategoryFromProp(ls, term, category) ==
    LET bySearch == IF term # "" THEN FilterBySearch(ls, term) ELSE ls
    IN  IF category # "all" THEN FilterByCategory(ls, category) ELSE bySearch

\* the body of the effect: the value it hands to setFilteredLanguages
filtered(ls, term, category) ==
    LET bySearch == IF term # "" THEN FilterBySearch(ls, term) ELSE ls
    IN  IF category # "all" THEN FilterByCategory(bySearch, category)
        ELSE bySearch

\* the list in the state when the component renders next: an effect still
\* pending from the last render runs before that render, with the values
\* of the last render
Flushed ==
    IF effectPending
    THEN filtered(languages, searchTerm, selectedCategory)
    ELSE filteredLanguages

\* onChange of the search box: the component renders with the new term and
\* the list it had; the effect is due
setSearchTerm(value) ==
    /\ selectedCategory # "off"
    /\ value # searchTerm
    /\ searchTerm' = value
    /\ filteredLanguages' = Flushed
    /\ effectPending' = TRUE
    /\ UNCHANGED <<languages, selectedCategory>>

\* onClick of a category button: the component renders with the new category
\* and the list it had; the effect is due
setSelectedCategory(id) ==
    /\ selectedCategory # "off"
    /\ id # selectedCategory
    /\ selectedCategory' = id
    /\ filteredLanguages' = Flushed
    /\ effectPending' = TRUE
    /\ UNCHANGED <<languages, searchTerm>>

\* the parent renders the selector with another list: one language more at
\* the end, or the first one gone; the effect is due
LanguagesPropChanges ==
    /\ selectedCategory # "off"
    /\ \/ \E l \in AvailableLanguages :
             /\ Len(languages) < MaxLanguages
             /\ languages' = Append(languages, l)
       \/ /\ languages # <<>>
          /\ languages' = Tail(languages)
    /\ filteredLanguages' = Flushed
    /\ effectPending' = TRUE
    /\ UNCHANGED <<searchTerm, selectedCategory>>

\* the effect with the dependencies [searchTerm, selectedCategory,
\* languages] runs after the render that changed one of them:
\* setFilteredLanguages(filtered), and the component renders the new list
useEffect ==
    /\ selectedCategory # "off"
    /\ effectPending
    /\ filteredLanguages' = filtered(languages, searchTerm, selectedCategory)
    /\ effectPending' = FALSE
    /\ UNCHANGED <<languages, searchTerm, selectedCategory>>

\* the selector is mounted with a list and has rendered once: useState(''),
\* useState(languages), useState('all'); the effect is due
SelectorInit ==
    /\ GuardOff
    /\ NavOff
    /\ LangIdle
    /\ languages \in LanguageLists
    /\ searchTerm = ""
    /\ selectedCategory = "all"
    /\ filteredLanguages = languages
    /\ effectPending = TRUE

SelectorNext ==
    /\ \/ \E value \in SearchTerms : setSearchTerm(value)
       \/ \E id \in categories : setSelectedCategory(id)
       \/ LanguagesPropChanges
       \/ useEffect
    /\ UNCHANGED guardVars
    /\ UNCHANGED navVars
    /\ UNCHANGED langVars

SelectorSpec == SelectorInit /\ [][SelectorNext]_vars

(***************************************************************************)
(* Properties of the guard.                                                *)
(***************************************************************************)
\* the middleware has answered the request
Answered == pc = "done"

\* the rule "authenticated user on an auth page" applies to the path
AuthPageRule(pathname) ==
    /\ StartsWith(pathname, "/login") \/ StartsWith(pathname, "/auth")
    /\ ~StartsWith(pathname, "/auth/callback")

Pair(k, v) == [k |-> k, v |-> v]

\* C1: a request of a path starting with /dashboard, with no session, is
\* redirected to /login with query parameters exactly {redirectTo: <path>},
\* whatever the incoming query string is.
C1_ProtectedAbsentExactQuery ==
    (Answered /\ lookup = "Absent" /\ StartsWith(req.pathname, "/dashboard"))
        => /\ decision.kind = "redirect"
           /\ decision.url.pathname = "/login"
           /\ Params(decision.url.query) = {Pair("redirectTo", req.pathname)}

\* C2 as stated: with a Valid session and a redirectTo value not starting
\* with '/', the decision is Continue (on every path); and every redirect
\* targets the origin of the request.
C2_Original ==
    Answered =>
        /\ (/\ lookup = "Valid"
            /\ Has(req.query, "redirectTo")
            /\ ~StartsWith(Get(req.query, "redirectTo"), "/"))
              => decision = Continue
        /\ decision.kind = "redirect" => decision.url.origin = req.origin

\* C2 amended: with a Valid session and a redirectTo value not starting with
\* '/', the decision is Continue on every path to which the auth-page rule
\* does not apply (and on those, the redirect to /dashboard); every redirect
\* the guard produces, for every input, targets the origin of the request.
C2_NoOffsiteRedirect ==
    Answered =>
        /\ (/\ lookup = "Valid"
            /\ Has(req.query, "redirectTo")
            /\ ~StartsWith(Get(req.query, "redirectTo"), "/"))
              => IF AuthPageRule(req.pathname)
                 THEN /\ decision.kind = "redirect"
                      /\ decision.url.pathname = "/dashboard"
                 ELSE decision = Continue
        /\ decision.kind = "redirect" => decision.url.origin = req.origin

\* an absolute redirectTo on a path outside the auth pages was let through
C2_Witness ==
    /\ Answered
    /\ lookup = "Valid"
    /\ req.pathname = "/dashboard"
    /\ req.query = <<Pair("redirectTo", "https://evil.example")>>
    /\ decision = Continue

\* C3: with a Valid session, on a path to which the auth-page rule does not
\* apply, a redirectTo value starting with '/' becomes the path of a redirect
\* whose URL has no redirectTo parameter left; redirectTo=/dashboard/settings
\* alone gives Redirect("/dashboard/settings", {}).
C3_ContinuationConsumed ==
    (/\ Answered
     /\ lookup = "Valid"
     /\ ~AuthPageRule(req.pathname)
     /\ Has(req.query, "redirectTo")
     /\ StartsWith(Get(req.query, "redirectTo"), "/"))
        => /\ decision.kind = "redirect"
           /\ decision.url.origin = req.origin
           /\ decision.url.pathname = EncodePath(Get(req.query, "redirectTo"))
           /\ ~Has(decision.url.query, "redirectTo")
           /\ req.query = <<Pair("redirectTo", "/dashboard/settings")>>
                => decision.url = [origin |-> req.origin,
                                   pathname |-> "/dashboard/settings",
                                   query |-> <<>>]

\* the continuation /dashboard/settings was followed from /dashboard
C3_Witness ==
    /\ Answered
    /\ lookup = "Valid"
    /\ req.pathname = "/dashboard"
    /\ req.query = <<Pair("redirectTo", "/dashboard/settings")>>
    /\ decision.kind = "redirect"
    /\ decision.url.pathname = "/dashboard/settings"

\* C4: on a path starting with /login or /auth and not under /auth/callback,
\* with a Valid session, the decision is a redirect to /dashboard with an
\* empty query.
C4_AuthPageToDashboardEmptyQuery ==
    (Answered /\ lookup = "Valid" /\ AuthPageRule(req.pathname))
        => decision = Redirect([origin |-> req.origin,
                                pathname |-> "/dashboard",
                                query |-> <<>>])

\* C5: when the session lookup returns Error, the decision is a redirect to
\* /login with query exactly {error: session_error} on every path that is not
\* an AuthPage (paths under /auth/callback are not AuthPages), and Continue on
\* every AuthPage path; nothing is raised.
C5_SessionErrorRule ==
    (Answered /\ lookup = "Error")
        => IF AuthPageRule(req.pathname)
           THEN decision = Continue
           ELSE /\ decision.kind = "redirect"
                /\ decision.url.pathname = "/login"
                /\ Params(decision.url.query) = {Pair("error", "session_error")}

\* C6: whatever fails during the evaluation (creating the client, the session
\* lookup throwing), the answer is Continue and no exception leaves the guard.
C6_FailOpen ==
    Answered =>
        /\ decision.kind # "throw"
        /\ lookup = "Throws" => decision = Continue
        /\ lookups = 0 => decision = Continue

\* C7: a request of a path under /auth/callback with no session gets Continue,
\* whatever its query string is.
C7_CallbackNotSentToLogin ==
    (Answered /\ lookup = "Absent" /\ StartsWith(req.pathname, "/auth/callback"))
        => decision = Continue

\* /auth/callback?code=abc without a session was let through
C7_Witness ==
    /\ Answered
    /\ lookup = "Absent"
    /\ req.pathname = "/auth/callback"
    /\ req.query = <<Pair("code", "abc")>>
    /\ decision = Continue

(***************************************************************************)
(* Properties of the navigation.                                           *)
(***************************************************************************)
\* C8: when the guard has sent an unauthenticated request of a protected
\* path P to /login?redirectTo=P and the user has then signed in, the page
\* the navigation ends on is P.
C8_LandsOnIntendedPath ==
    (phase = "rendered" /\ signedIn /\ intent # "") => url.pathname = intent

\* C9: for every session lookup result (Valid, Absent, Error) and every
\* getUser result, following the redirects of the guard and of the dashboard
\* page ends at a rendered page: every request is eventually followed by a
\* rendered page. The page the framework shows for a handler that has thrown
\* ends the redirects as well; what the claim excludes is a navigation that
\* goes from redirect to redirect for ever.
C9_AlwaysReachesPage ==
    []((phase = "guard" /\ session # "Throws")
          => <>(phase \in {"rendered", "crashed"}))

\* C10: the dashboard page renders its content only when getUser returned a
\* user and no error; in every other case it redirects to /login and shows
\* nothing, also when the guard let the request through.
C10_DashboardOnlyForUser ==
    [][/\ (page' = "dashboard" /\ page # "dashboard") => userResult = "user"
       /\ (phase = "handler" /\ url.pathname = "/dashboard" /\ userResult # "user")
            => /\ url' = LocalUrl("/login", <<>>)
               /\ page' # "dashboard"
               /\ phase' # "rendered"]_vars

\* the guard failed open on /dashboard for a visitor without a user, and the
\* dashboard page sent the visitor to /login
C10_Witness ==
    /\ last = "dashboardRedirect"
    /\ session = "Throws"
    /\ userResult = "none"
    /\ url.pathname = "/login"
    /\ page = "none"
(***************************************************************************)
(* Properties of the matcher.                                              *)
(***************************************************************************)
\* path is prefix itself or lies below it
Under(path, prefix) == path = prefix \/ StartsWith(path, prefix \o "/")

\* String.prototype.endsWith
EndsWith(s, e) == Len(s) >= Len(e) /\ SubSeq(s, Len(s) - Len(e) + 1, Len(s)) = e

\* the request has been dispatched: to the middleware or past it
Dispatched == pc # "idle"

\* C11: the middleware is skipped exactly for the paths under
\* /_next/static and /_next/image, for /favicon.ico itself and for the paths
\* ending in one of the six image extensions; every other path is evaluated
\* by the guard.
C11_MatcherExclusions ==
    Dispatched =>
        (pc = "skipped" <=>
            \/ Under(req.pathname, "/_next/static")
            \/ Under(req.pathname, "/_next/image")
            \/ req.pathname = "/favicon.ico"
            \/ \E e \in ImageExtensions : EndsWith(req.pathname, "." \o e))

(***************************************************************************)
(* Properties of the auth callback.                                        *)
(***************************************************************************)
\* C12: the callback handler always answers with a redirect of this origin:
\* to /dashboard exactly when a code was given and the exchange returned a
\* session without error, to /login?error=auth_callback_error when the
\* exchange returned an error, to /login?error=unexpected_error when it
\* threw, and to /login without parameters when there was no code or the
\* exchange returned neither.
C12_CallbackRedirects ==
    StartsWith(last, "callback") =>
        /\ phase = "guard"
        /\ url.origin = Origin
        /\ (url.pathname = "/dashboard" <=> last = "callback:session")
        /\ url.pathname \in {"/dashboard", "/login"}
        /\ last = "callback:session" => url.query = <<>>
        /\ last = "callback:error" =>
               url.query = <<Pair("error", "auth_callback_error")>>
        /\ last = "callback:throws" =>
               url.query = <<Pair("error", "unexpected_error")>>
        /\ last \in {"callback", "callback:neither"} => url.query = <<>>


(***************************************************************************)
(* Properties of logout.                                                   *)
(***************************************************************************)
\* C13: once the logout action has completed, a request for a path under
\* /dashboard is not passed by the guard to the page: as long as nobody
\* signs in again the guard sees no session and redirects it to /login.
C13_LoggedOutNotServed ==
    (loggedOut /\ StartsWith(url.pathname, "/dashboard"))
        => phase \notin {"handler", "rendered"}

(***************************************************************************)
(* Properties of the server actions on user_languages.                     *)
(***************************************************************************)
\* no call is between two of its database requests
Completed == \A b \in Browsers : calls[b].pc \in {"idle", "done"}

\* the positions of user's primary rows
PrimaryRows(user) ==
    {i \in 1..Len(rows) : rows[i].user_id = user /\ rows[i].is_primary}

\* C14: after any sequence of completed calls of selectLanguage,
\* updateLanguagePreferences and removeLanguage, made one after the other,
\* each user has at most one row with is_primary = true.
C14_AtMostOnePrimary ==
    Completed => \A u \in Users : Cardinality(PrimaryRows(u)) <= 1

\* browser b takes a step of its call
Acts(b) == calls'[b] # calls[b]

\* C15: no step of a server action changes a row of a user other than the
\* caller; this covers an update or a removal given another user's row id
\* and the unsetting of primary flags.
C15_NoForeignWrite ==
    [][\A b \in Browsers :
          Acts(b) =>
              /\ Len(rows') >= Len(rows)
              /\ \A i \in 1..Len(rows) :
                    rows[i].user_id # UserOf(b) => rows'[i] = rows[i]]_vars

\* a removal given the id of another user's row has returned success and
\* the row is still active
C15_Witness ==
    \E b \in Browsers :
        /\ calls[b].pc = "done"
        /\ calls[b].op = "removeLanguage"
        /\ calls[b].result.success
        /\ calls[b].userLanguageId \in 1..Len(rows)
        /\ rows[calls[b].userLanguageId].user_id # UserOf(b)
        /\ rows[calls[b].userLanguageId].is_active

\* the actions C16 names
Writers == {"selectLanguage", "updateLanguagePreferences", "removeLanguage"}

\* C16: a call of selectLanguage, updateLanguagePreferences, removeLanguage
\* or getUserLanguages by a caller who is not authenticated ends at once
\* with { success: false, error: 'User not authenticated' }; in that case,
\* and when the required languageId or userLanguageId is missing, the call
\* ends without a database write.
C16_Unauthenticated ==
    [][\A b \in Browsers :
          (calls[b].pc = "idle" /\ calls'[b].pc # "idle") =>
              LET c == calls'[b]
              IN  /\ (c.auth # "user"
                      /\ c.op \in Writers \cup {"getUserLanguages"}) =>
                         /\ c.pc = "done"
                         /\ c.result = Failure("User not authenticated")
                         /\ rows' = rows
                         /\ profiles' = profiles
                  /\ (c.auth = "user"
                      /\ \/ c.op = "selectLanguage" /\ c.languageId = ""
                         \/ c.op \in Writers \ {"selectLanguage"}
                            /\ c.userLanguageId = 0) =>
                         /\ c.pc = "done"
                         /\ ~c.result.success
                         /\ rows' = rows
                         /\ profiles' = profiles]_vars

\* a removal was refused because getUser returned an error, with rows in
\* the table
C16_Witness ==
    \E b \in Browsers :
        /\ calls[b].pc = "done"
        /\ calls[b].op = "removeLanguage"
        /\ calls[b].auth = "error"
        /\ calls[b].result = Failure("User not authenticated")
        /\ Len(rows) > 0

\* C17: selectLanguage for a language the caller already has ends with
\* { success: false, error: 'You have already selected this language' } and
\* inserts nothing; so with calls made one after the other a user has at
\* most one row per language.
C17_NoDuplicateLanguage ==
    /\ [](\A u \in Users, l \in Languages :
             Cardinality(Matching(rows, u, l)) <= 1)
    /\ [][\A b \in Browsers :
             (/\ Acts(b)
              /\ calls[b].op = "selectLanguage"
              /\ calls[b].pc = "check"
              /\ Matching(rows, UserOf(b), calls[b].languageId) # {}) =>
                 /\ calls'[b].pc = "done"
                 /\ calls'[b].result =
                        Failure("You have already selected this language")
                 /\ rows' = rows]_vars

\* the ids of the user languages a result lists
ListedIds(r) == {r.userLanguages[i].id : i \in 1..Len(r.userLanguages)}

\* C18: removeLanguage of a row of the caller, when it succeeds, is a soft
\* delete: the row stays with is_active = false and every other field as it
\* was, and no other row changes;
\* getUserLanguages returns exactly the caller's active rows, so not the
\* removed one, and hasUserSelectedLanguages reports hasLanguages exactly
\* when an active row of the caller remains.
C18_SoftDelete ==
    /\ [][\A b \in Browsers :
             (/\ Acts(b)
              /\ calls[b].op = "removeLanguage"
              /\ calls[b].pc = "remove"
              /\ calls[b].userLanguageId \in 1..Len(rows)
              /\ rows[calls[b].userLanguageId].user_id = UserOf(b)
              /\ calls'[b].result.success) =>
                 rows' = [rows EXCEPT
                          ![calls[b].userLanguageId].is_active = FALSE]]_vars
    /\ [](\A b \in Browsers :
             (calls[b].pc = "done" /\ calls[b].result.success) =>
                 /\ calls[b].op = "getUserLanguages" =>
                       ListedIds(calls[b].result) =
                           {i \in 1..Len(rows) : /\ rows[i].user_id = UserOf(b)
                                                 /\ rows[i].is_active}
                 /\ calls[b].op = "hasUserSelectedLanguages" =>
                       (calls[b].result.hasLanguages <=>
                           \E i \in 1..Len(rows) : /\ rows[i].user_id = UserOf(b)
                                                   /\ rows[i].is_active))

\* the caller has removed one of two languages, and getUserLanguages
\* returns the other one only
C18_Witness ==
    \E b \in Browsers :
        /\ calls[b].pc = "done"
        /\ calls[b].op = "getUserLanguages"
        /\ Len(rows) = 2
        /\ rows[1].user_id = UserOf(b)
        /\ rows[2].user_id = UserOf(b)
        /\ ~rows[1].is_active
        /\ ListedIds(calls[b].result) = {2}

(***************************************************************************)
(* Properties of the route classes.                                        *)
(***************************************************************************)
\* the flags isAuthPage and isProtectedRoute have been computed: getSession
\* has returned
FlagsComputed == Answered /\ lookup \in {"Valid", "Absent", "Error"}

\* C19: the guard's flags agree with the route classes: isAuthPage exactly on
\* the paths that start with /login or /auth and are not under
\* /auth/callback, isProtectedRoute exactly on the paths that start with
\* /dashboard, and no path is in both classes.
C19_FlagsAgreeWithClasses ==
    FlagsComputed =>
        /\ isAuthPage(req.pathname) <=> AuthPageRule(req.pathname)
        /\ isProtectedRoute(req.pathname) <=> StartsWith(req.pathname, "/dashboard")
        /\ ~(AuthPageRule(req.pathname) /\ StartsWith(req.pathname, "/dashboard"))

(***************************************************************************)
(* Properties of the dashboard's client components.                        *)
(***************************************************************************)
\* C20: once the LanguageSelector has reported a success, the user language
\* it returned is in DashboardContent's list, hasLanguages is true and the
\* user language passes the list filter, so that it is shown without a
\* reload; this includes a user's first language.
C20_AddedLanguageShown ==
    \A b \in Browsers :
        ui[b].added # 0 =>
            /\ hasLanguages(ui[b].list)
            /\ \E i \in 1..Len(Listed(ui[b].list)) :
                  Listed(ui[b].list)[i].id = ui[b].added

(***************************************************************************)
(* Properties of server actions running side by side.                      *)
(***************************************************************************)
\* C21: also when two calls of selectLanguage or updateLanguagePreferences
\* with isPrimary = 'true' of the same user run side by side, their database
\* requests interleaved in any order, the user never has more than one row
\* with is_primary = true.
C21_AtMostOnePrimaryConcurrent ==
    \A u \in Users :
        \A i, j \in PrimaryRows(u) : i = j

(***************************************************************************)
(* Properties of failing and of repeated server actions.                   *)
(***************************************************************************)
\* C22: whenever selectLanguage or updateLanguagePreferences returns
\* success: false, the table user_languages is as it was before the call;
\* in particular a failing insert or update leaves the caller's is_primary
\* flags as they were.
C22_FailureLeavesTable ==
    \A b \in Browsers :
        (/\ calls[b].pc = "done"
         /\ calls[b].op \in {"selectLanguage", "updateLanguagePreferences"}
         /\ ~calls[b].result.success) =>
            rows = calls[b].before

\* the caller's rows of language l in the table t are all inactive, and
\* there is one
Removed(t, user, l) ==
    /\ Matching(t, user, l) # {}
    /\ \A i \in Matching(t, user, l) : ~t[i].is_active

\* C23: a selectLanguage call for a language of the catalog that the caller
\* has removed with removeLanguage succeeds, and the caller then has an
\* active row of the language again (which getUserLanguages returns).
C23_RemovedCanBeAddedAgain ==
    \A b \in Browsers :
        (/\ calls[b].pc = "done"
         /\ calls[b].op = "selectLanguage"
         /\ calls[b].auth = "user"
         /\ calls[b].languageId \in Languages
         /\ Removed(calls[b].before, UserOf(b), calls[b].languageId)) =>
            /\ calls[b].result.success
            /\ \E i \in Matching(rows, UserOf(b), calls[b].languageId) :
                  rows[i].is_active

\* the request is for one of the pages that a signed-in visitor is sent
\* away from
LeftWhenSignedIn(pathname) ==
    isAuthPage(pathname) /\ ~StartsWith(pathname, "/auth/callback")

\* the answer as a table of the path, the query and the result of the
\* lookup, its rows excluding one another
AnswerTable(u, r) ==
    CASE r = "Error" /\ ~isAuthPage(u.pathname) ->
             Redirect(SessionErrorRedirect(u))
      [] r = "Absent" /\ isProtectedRoute(u.pathname) ->
             Redirect(ProtectRedirect(u))
      [] r = "Valid" /\ LeftWhenSignedIn(u.pathname) ->
             Redirect(AuthPageRedirect(u))
      [] /\ r = "Valid"
         /\ ~LeftWhenSignedIn(u.pathname)
         /\ StartsWith(Get(u.query, "redirectTo"), "/") ->
             Redirect(PostLoginRedirect(u))
      [] OTHER -> Continue

C25_OneLookupBeforeDecision ==
    /\ lookups <= 1
    /\ Answered => lookups = 1
    /\ decision.kind \in {"next", "redirect"} =>
           /\ lookups = 1
           /\ lookup \in SessionResults

\* the part of C25 about requests the middleware answers: one call, settled
\* before the answer
LookupBeforeDecision ==
    /\ lookups <= 1
    /\ decision.kind \in {"next", "redirect"} =>
           /\ lookups = 1
           /\ lookup \in SessionResults

(***************************************************************************)
(* Properties of LanguageSelector.                                         *)
(***************************************************************************)
\* the characters a and b are the same letter, whatever their case
SameLetter(a, b) == LowerChar(a) = LowerChar(b)

\* t occurs in s when case is ignored
OccursIgnoringCase(s, t) ==
    \E i \in 0..(Len(s) - Len(t)) :
        \A k \in 1..Len(t) :
            SameLetter(SubSeq(s, i + k, i + k), SubSeq(t, k, k))

MatchesTerm(lang, term) ==
    \/ term = ""
    \/ OccursIgnoringCase(lang.name, term)
    \/ OccursIgnoringCase(lang.native_name, term)
    \/ OccursIgnoringCase(lang.code, term)

MatchesCategory(lang, category) ==
    \/ category = "all"
    \/ category = "featured" /\ IsFeatured(lang)
    \/ category = "easy" /\ IsEasy(lang)
    \/ category = "european" /\ IsEuropean(lang)
    \/ category = "asian" /\ IsAsian(lang)

\* the positions of the prop's languages that match term and category
Kept == {j \in 1..Len(languages) :
            /\ MatchesTerm(languages[j], searchTerm)
            /\ MatchesCategory(languages[j], selectedCategory)}

\* the i-th smallest position of Kept
KeptAt(i) == CHOOSE j \in Kept : Cardinality({k \in Kept : k <= j}) = i

\* C26: once the effect that a change of the search term, the category or
\* the prop has made due has run, the displayed list is the list of the
\* prop's languages that match the search term (ignoring case, in name,
\* native_name or code; the empty term matches all) and the selected
\* category, in the prop's order.
C26_DisplayedIsMatchingSublist ==
    (selectedCategory \in categories /\ ~effectPending) =>
        /\ Len(filteredLanguages) = Cardinality(Kept)
        /\ \A i \in 1..Len(filteredLanguages) :
               filteredLanguages[i] = languages[KeptAt(i)]

\* a search and a category together: of three languages the first does not
\* match, one matches the search but not the category, and one is displayed
C26_Witness ==
    /\ ~effectPending
    /\ selectedCategory = "asian"
    /\ searchTerm = "AN"
    /\ Len(languages) = MaxLanguages
    /\ Len(filteredLanguages) = 1
    /\ languages[1] # filteredLanguages[1]
    /\ \E j \in 1..Len(languages) :
          /\ MatchesTerm(languages[j], searchTerm)
          /\ ~MatchesCategory(languages[j], selectedCategory)

====
